---- MODULE Spec2Model ----
(***************************************************************************)
(* Model of the image converter (src/src/main.rs): the format registry     *)
(* (SupportedFormat), the conversion engine (ImageConverter::convert and   *)
(* ImageConverter::batch_convert) and the command line entry point (main). *)
(*                                                                         *)
(* Strings are sequences of one-character strings, so that lower-casing,   *)
(* file-stem / extension splitting and output-name formatting are computed *)
(* and not assumed.  The codec library and the operating system are the    *)
(* environment: whether a file opens, decodes, can be created or encodes   *)
(* is chosen by the environment within what the file's content allows.     *)
(***************************************************************************)
EXTENDS Integers, Sequences, FiniteSets, TLC

\* ------------------------------------------------------------------------
\* Bounds of the model
\* ------------------------------------------------------------------------
\* largest number of entries of the input directory
MaxEntries == 5

\* ------------------------------------------------------------------------
\* Program constants
\* ------------------------------------------------------------------------
\* main.rs:162  ImageConverter::new(85)
DefaultQuality == 85
\* main.rs:43   quality.min(100)
MaxQuality == 100

\* ------------------------------------------------------------------------
\* Characters and strings
\* ------------------------------------------------------------------------
UpperChars ==
  << "A","B","C","D","E","F","G","H","I","J","K","L","M",
     "N","O","P","Q","R","S","T","U","V","W","X","Y","Z" >>
LowerChars ==
  << "a","b","c","d","e","f","g","h","i","j","k","l","m",
     "n","o","p","q","r","s","t","u","v","w","x","y","z" >>

\* str::to_lowercase on one character (ASCII letters; other characters of
\* the model's alphabet are unchanged)
ToLowerChar(c) ==
  IF \E k \in 1..Len(UpperChars) : UpperChars[k] = c
    THEN LowerChars[CHOOSE k \in 1..Len(UpperChars) : UpperChars[k] = c]
    ELSE c

\* str::to_lowercase, main.rs:17
to_lowercase(s) == [i \in 1..Len(s) |-> ToLowerChar(s[i])]

\* Result<T, E>
Ok(v) == [ok |-> TRUE, val |-> v, err |-> <<>>]
Err(e) == [ok |-> FALSE, val |-> "none", err |-> e]

\* Option<&OsStr>
Some(s) == [some |-> TRUE, v |-> s]
None == [some |-> FALSE, v |-> <<>>]

\* ------------------------------------------------------------------------
\* SupportedFormat (FormatRegistry)
\* ------------------------------------------------------------------------
SupportedFormat == {"Jpeg", "Png", "WebP", "Avif"}

from_extension_cs(ext) ==
  CASE ext \in { <<"j","p","g">>, <<"j","p","e","g">> } -> Ok("Jpeg")
    [] ext = <<"p","n","g">> -> Ok("Png")
    [] ext = <<"w","e","b","p">> -> Ok("WebP")
    [] ext = <<"a","v","i","f">> -> Ok("Avif")
    [] OTHER -> Err(ext)

\* SupportedFormat::from_extension, main.rs:16-24.  The error value is the
\* argument of format!("Unsupported format: {}", ext): the original string.
from_extension(ext) ==
  LET l == to_lowercase(ext) IN
  CASE l \in { <<"j","p","g">>, <<"j","p","e","g">> } -> Ok("Jpeg")
    [] l = <<"p","n","g">> -> Ok("Png")
    [] l = <<"w","e","b","p">> -> Ok("WebP")
    [] l = <<"a","v","i","f">> -> Ok("Avif")
    [] OTHER -> Err(ext)

extension_jpeg(f) ==
  CASE f = "Jpeg" -> <<"j","p","e">>
    [] f = "Png" -> <<"p","n","g">>
    [] f = "WebP" -> <<"w","e","b","p">>
    [] f = "Avif" -> <<"a","v","i","f">>

\* SupportedFormat::extension, main.rs:26-33
extension(f) ==
  CASE f = "Jpeg" -> <<"j","p","g">>
    [] f = "Png" -> <<"p","n","g">>
    [] f = "WebP" -> <<"w","e","b","p">>
    [] f = "Avif" -> <<"a","v","i","f">>

\* ------------------------------------------------------------------------
\* std::path::Path on a file name (the last component of a path)
\* ------------------------------------------------------------------------
\* position of the last '.', 0 when there is none
LastDot(s) ==
  IF \E i \in 1..Len(s) : s[i] = "."
    THEN CHOOSE i \in 1..Len(s) :
           s[i] = "." /\ \A j \in (i+1)..Len(s) : s[j] # "."
    ELSE 0

\* the split the standard library applies to a file name: (before, after)
\* the last dot; a name that is ".." or starts with its only dot has no
\* extension
rsplit_file_at_dot(file) ==
  LET d == LastDot(file) IN
  IF file = <<".", ".">> THEN [before |-> Some(file), after |-> None]
  ELSE IF d = 0 THEN [before |-> None, after |-> Some(file)]
  ELSE IF d = 1 THEN [before |-> Some(file), after |-> None]
  ELSE [before |-> Some(SubSeq(file, 1, d - 1)),
        after |-> Some(SubSeq(file, d + 1, Len(file)))]

\* Path::extension, used at main.rs:113 and main.rs:209
path_extension(file) ==
  LET p == rsplit_file_at_dot(file) IN
  IF p.before.some THEN p.after ELSE None

\* Path::file_stem, used at main.rs:115
path_file_stem(file) ==
  LET p == rsplit_file_at_dot(file) IN
  IF p.before.some THEN p.before ELSE p.after

\* main.rs:115-116  format!("{}.{}", file_stem, target_format.extension())
output_filename(name, f) == path_file_stem(name).v \o <<".">> \o extension(f)

\* image::ImageFormat::from_path as used at main.rs:50: the decoder is
\* chosen from the input file's extension (ASCII lower-cased); the model
\* lists the extensions of the formats that occur in it
ImageFormat_from_path(name) ==
  LET e == path_extension(name) IN
  IF e.some /\ to_lowercase(e.v) \in
       { <<"j","p","g">>, <<"j","p","e","g">>, <<"p","n","g">>,
         <<"w","e","b","p">>, <<"a","v","i","f">>, <<"g","i","f">>,
         <<"b","m","p">> }
    THEN Ok(to_lowercase(e.v))
    ELSE Err("unsupported")

\* ------------------------------------------------------------------------
\* State
\* ------------------------------------------------------------------------
VARIABLES
  args,             \* env::args(), program name first (main.rs:155)
  input,            \* what the input path names: missing, a file, a directory
  out_exists,       \* whether the destination directory exists
  out_files,        \* the files of the destination directory
  pc,               \* control location in main / batch_convert
  exit_code,        \* "running", or the process exit code "0" / "1"
  quality,          \* ImageConverter.quality (0 until the converter is built)
  target_format,    \* the SupportedFormat in use, "none" before it is known
  entries,          \* the directory iterator of batch_convert
  idx,              \* position of the iterator (next entry to yield)
  converted_count,  \* batch_convert's counter
  log,              \* lines written to stdout / stderr
  fsops,            \* file-system calls made, in order
  calls,            \* the convert calls made
  encodes           \* the encoder invocations made

vars == << args, input, out_exists, out_files, pc, exit_code, quality,
           target_format, entries, idx, converted_count, log, fsops, calls,
           encodes >>

Min(a, b) == IF a < b THEN a ELSE b

\* ImageConverter::new, main.rs:41-45
new(q) == Min(q, MaxQuality)

\* an output line: kind, the text it carries, the number it carries
Line(k, a, n) == [k |-> k, a |-> a, n |-> n]
\* a file-system call
Op(op, on) == [op |-> op, on |-> on]

\* writing (creating or truncating) one file of a directory
WriteFile(files, name, content) ==
  { f \in files : f.name # name } \cup { [name |-> name, content |-> content] }

\* ImageConverter::load_image, main.rs:47-51.  File::open, then the decoder
\* is chosen from the path, then the content is decoded.
load_image(name, content, openOk) ==
  IF ~openOk THEN Err("io")
  ELSE IF ~ImageFormat_from_path(name).ok THEN Err("unsupported")
  ELSE IF content = "valid" THEN Ok("image")
  ELSE Err("decode")

\* ImageConverter::save_image, main.rs:53-75.  Every arm creates (truncates)
\* the output file and then encodes into it with the library's encoder for
\* the format; none of the calls is given self.quality.  An encoder that
\* fails leaves the created file behind.
save_image(q, files, out_name, format, saveOut) ==
  LET enc == << [format |-> format, hint |-> {}] >> IN
  CASE saveOut = "create_fail" ->
         [res |-> Err("io"), files |-> files, encodes |-> <<>>]
    [] saveOut = "encode_fail" ->
         [res |-> Err("encode"),
          files |-> WriteFile(files, out_name, "partial"),
          encodes |-> enc]
    [] OTHER ->
         [res |-> Ok("saved"),
          files |-> WriteFile(files, out_name, format),
          encodes |-> enc]

\* ImageConverter::convert, main.rs:77-93
convert(q, in_name, content, out_name, format, files, openOk, saveOut) ==
  LET img == load_image(in_name, content, openOk)
      sv == save_image(q, files, out_name, format, saveOut)
      l1 == << Line("loading", in_name, 0) >>
      l2 == l1 \o << Line("dimensions", <<>>, 0),
                     Line("converting", extension(format), 0) >>
  IN
  IF ~img.ok
    THEN [res |-> img, log |-> l1, fsops |-> << Op("open", "input") >>,
          files |-> files, encodes |-> <<>>]
  ELSE IF ~sv.res.ok
    THEN [res |-> sv.res, log |-> l2,
          fsops |-> << Op("open", "input"), Op("create", "output") >>,
          files |-> sv.files, encodes |-> sv.encodes]
  ELSE [res |-> Ok("converted"),
        log |-> l2 \o << Line("completed", out_name, 0) >>,
        fsops |-> << Op("open", "input"), Op("create", "output") >>,
        files |-> sv.files, encodes |-> sv.encodes]

SaveOutcomes == {"ok", "create_fail", "encode_fail"}

\* ------------------------------------------------------------------------
\* The inputs of the model
\* ------------------------------------------------------------------------
Prog == <<"c","v">>
BatchFlag == <<"-","-","b","a","t","c","h">>
InDir == <<"i","n">>
OutDir == <<"o","u","t">>

Entry(name, kind, content) == [name |-> name, kind |-> kind, content |-> content]

\* the directory entries the listings are drawn from
Pool ==
  << Entry(<<"a",".","p","n","g">>, "file", "valid"),
     Entry(<<"a",".","J","P","G">>, "file", "valid"),
     Entry(<<"b",".","j","p","e","g">>, "file", "valid"),
     Entry(<<"c",".","w","e","b","p">>, "file", "corrupt"),
     Entry(<<"d",".","g","i","f">>, "file", "valid"),
     Entry(<<"R","E","A","D","M","E">>, "file", "valid"),
     Entry(<<"s",".","p","n","g">>, "dir", "none"),
     Entry(<<".","a","v","i","f">>, "file", "valid") >>

RECURSIVE SeqOf(_)
SeqOf(S) ==
  IF S = {} THEN <<>>
  ELSE LET m == CHOOSE x \in S : \A y \in S : x <= y
       IN << Pool[m] >> \o SeqOf(S \ {m})

\* the directory listings: at most MaxEntries entries of the pool
Listings ==
  { SeqOf(S) : S \in { T \in SUBSET (1..Len(Pool)) : Cardinality(T) <= MaxEntries } }

\* the <format> argument of batch mode
FormatArgs ==
  { <<"j","p","g">>, <<"J","P","E","G">>, <<"p","n","g">>, <<"W","e","b","P">>,
    <<"a","v","i","f">>, <<"g","i","f">>, <<>> }

\* input and output file names of single-file mode
InNames == { <<"a",".","p","n","g">>, <<"r","a","w">> }
OutNames ==
  { <<"o",".","w","e","b","p">>, <<"o",".","J","P","E","G">>, <<"o",".","j","p","g">>,
    <<"o",".","p","n","g">>, <<"o",".","a","v","i","f">>, <<"o",".","g","i","f">>,
    <<"o">>, <<".","p","n","g">>, <<"o",".">> }

NoInput == [kind |-> "missing", content |-> "none", listing |-> <<>>]
FileInput(c) == [kind |-> "file", content |-> c, listing |-> <<>>]
DirInput(l) == [kind |-> "dir", content |-> "none", listing |-> l]

OldFiles == { [name |-> <<"o","l","d">>, content |-> "old"] }

World(a, i, oe, of) == [args |-> a, input |-> i, out_exists |-> oe, out_files |-> of]

BatchWorlds ==
  { World(<<Prog, BatchFlag, InDir, OutDir, f>>, i, oe, IF oe THEN OldFiles ELSE {}) :
      f \in FormatArgs,
      i \in {NoInput, FileInput("valid")} \cup { DirInput(l) : l \in Listings },
      oe \in BOOLEAN }

SingleWorlds ==
  { World(<<Prog, i, o>>, w, TRUE, {}) :
      i \in InNames, o \in OutNames,
      w \in {NoInput, FileInput("valid"), FileInput("corrupt")} }

UsageWorlds ==
  { World(a, NoInput, TRUE, {}) :
      a \in { <<Prog>>, <<Prog, BatchFlag>>, <<Prog, BatchFlag, InDir, OutDir>>,
              <<Prog, <<"a",".","p","n","g">>, <<"o",".","p","n","g">>, <<"x">> >> } }

Start(w) ==
  /\ args = w.args
  /\ input = w.input
  /\ out_exists = w.out_exists
  /\ out_files = w.out_files
  /\ exit_code = "running"
  /\ quality = 0
  /\ target_format = "none"
  /\ entries = <<>>
  /\ idx = 1
  /\ converted_count = 0
  /\ log = <<>>
  /\ fsops = <<>>
  /\ calls = <<>>
  /\ encodes = <<>>

Init ==
  /\ \E w \in BatchWorlds \cup SingleWorlds \cup UsageWorlds : Start(w)
  /\ pc = "main"

\* args[k] of the program (TLA+ sequences start at 1)
Arg(k) == args[k + 1]

Exit(code) == pc' = "exit" /\ exit_code' = code

\* ------------------------------------------------------------------------
\* main
\* ------------------------------------------------------------------------
\* main.rs:155-170 and 193-199: argument count, the converter, the mode
MainStart ==
  /\ pc = "main"
  /\ UNCHANGED << args, input, out_exists, out_files, target_format, entries,
                  idx, converted_count, fsops, calls, encodes >>
  /\ IF Len(args) < 3
       THEN /\ log' = log \o << Line("usage", <<>>, 0) >>
            /\ quality' = quality
            /\ Exit("1")
     ELSE /\ quality' = new(DefaultQuality)
          /\ IF Arg(1) = BatchFlag
               THEN IF Len(args) # 5
                      THEN /\ log' = log \o << Line("error", <<>>, 0),
                                               Line("usage", <<>>, 0) >>
                           /\ Exit("1")
                      ELSE /\ log' = log
                           /\ pc' = "batch_parse"
                           /\ exit_code' = exit_code
               ELSE IF Len(args) # 3
                      THEN /\ log' = log \o << Line("error", <<>>, 0),
                                               Line("usage", <<>>, 0) >>
                           /\ Exit("1")
                      ELSE /\ log' = log
                           /\ pc' = "single_probe"
                           /\ exit_code' = exit_code

\* main.rs:172-182: the <format> argument is parsed
BatchParseFormat ==
  /\ pc = "batch_parse"
  /\ UNCHANGED << args, input, out_exists, out_files, quality, entries, idx,
                  converted_count, fsops, calls, encodes >>
  /\ LET r == from_extension(Arg(4)) IN
     IF r.ok
       THEN /\ target_format' = r.val
            /\ log' = log
            /\ pc' = "batch_check"
            /\ exit_code' = exit_code
       ELSE /\ target_format' = target_format
            /\ log' = log \o << Line("error_unsupported", r.err, 0) >>
            /\ Exit("1")

\* main.rs:184-187: the input directory must exist and be a directory
BatchCheckInputDir ==
  /\ pc = "batch_check"
  /\ UNCHANGED << args, input, out_exists, out_files, quality, target_format,
                  entries, idx, converted_count, calls, encodes >>
  /\ IF input.kind = "missing"
       THEN /\ fsops' = fsops \o << Op("stat", "input_dir") >>
            /\ log' = log \o << Line("error", <<>>, 0) >>
            /\ Exit("1")
     ELSE IF input.kind # "dir"
       THEN /\ fsops' = fsops \o << Op("stat", "input_dir"), Op("stat", "input_dir") >>
            /\ log' = log \o << Line("error", <<>>, 0) >>
            /\ Exit("1")
     ELSE /\ fsops' = fsops \o << Op("stat", "input_dir"), Op("stat", "input_dir") >>
          /\ log' = log
          /\ pc' = "Initializing"
          /\ exit_code' = exit_code

\* ------------------------------------------------------------------------
\* ImageConverter::batch_convert
\* ------------------------------------------------------------------------
\* main.rs:101-103: the output directory is created when absent; the
\* creation can fail, and the error is returned
EnsureOutputDir ==
  /\ pc = "Initializing"
  /\ UNCHANGED << args, input, out_files, exit_code, quality, target_format,
                  entries, idx, converted_count, log, calls, encodes >>
  /\ IF out_exists
       THEN /\ fsops' = fsops \o << Op("stat", "output_dir") >>
            /\ out_exists' = out_exists
            /\ pc' = "Scanning"
       ELSE /\ fsops' = fsops \o << Op("stat", "output_dir"), Op("mkdir", "output_dir") >>
            /\ \E created \in BOOLEAN :
                 /\ out_exists' = created
                 /\ pc' = IF created THEN "Scanning" ELSE "Aborted"

\* main.rs:105-106: the input directory is listed; the listing can fail
ReadDir ==
  /\ pc = "Scanning"
  /\ UNCHANGED << args, input, out_exists, out_files, exit_code, quality,
                  target_format, log, calls, encodes >>
  /\ fsops' = fsops \o << Op("readdir", "input_dir") >>
  /\ \E listed \in BOOLEAN :
       IF listed
         THEN /\ entries' = input.listing
              /\ idx' = 1
              /\ converted_count' = 0
              /\ pc' = "NextEntry"
         ELSE /\ UNCHANGED << entries, idx, converted_count >>
              /\ pc' = "Aborted"

\* the head of the for loop, main.rs:108
AtLoopHead == pc \in {"NextEntry", "Succeeded", "Failed"}

Eligible_anyfile(e) == e.kind = "file"

\* main.rs:112-114: the entry is a file whose extension parses
Eligible(e) ==
  /\ e.kind = "file"
  /\ path_extension(e.name).some
  /\ from_extension(path_extension(e.name).v).ok

\* main.rs:109: the iterator yields an error, which `?` returns
EntryError ==
  /\ AtLoopHead
  /\ pc' = "Aborted"
  /\ fsops' = fsops \o << Op("readdir_next", "input_dir") >>
  /\ UNCHANGED << args, input, out_exists, out_files, exit_code, quality,
                  target_format, entries, idx, converted_count, log, calls,
                  encodes >>

\* main.rs:108-114, 128-131: an entry that is no file, has no extension or
\* an unsupported one is passed over
SkipEntry ==
  /\ AtLoopHead
  /\ idx <= Len(entries)
  /\ ~Eligible(entries[idx])
  /\ idx' = idx + 1
  /\ pc' = "NextEntry"
  /\ fsops' = fsops \o << Op("readdir_next", "input_dir"), Op("stat", "entry") >>
  /\ UNCHANGED << args, input, out_exists, out_files, exit_code, quality,
                  target_format, entries, converted_count, log, calls, encodes >>

\* main.rs:108-119: the output path of an eligible entry is derived and
\* convert is called
BeginConvert ==
  /\ AtLoopHead
  /\ idx <= Len(entries)
  /\ Eligible(entries[idx])
  /\ calls' = Append(calls, [input |-> entries[idx].name,
                             output |-> output_filename(entries[idx].name, target_format),
                             format |-> target_format,
                             at |-> idx])
  /\ pc' = "Converting"
  /\ fsops' = fsops \o << Op("readdir_next", "input_dir"), Op("stat", "entry") >>
  /\ UNCHANGED << args, input, out_exists, out_files, exit_code, quality,
                  target_format, entries, idx, converted_count, log, encodes >>

BatchArm_propagate(r, name) ==
  /\ log' = log \o r.log \o
       (IF r.res.ok THEN << Line("converted", name, 0) >> ELSE <<>>)
  /\ converted_count' = IF r.res.ok THEN converted_count + 1 ELSE converted_count
  /\ pc' = IF r.res.ok THEN "Succeeded" ELSE "Aborted"

BatchArm_countall(r, name) ==
  /\ log' = log \o r.log \o
       << IF r.res.ok THEN Line("converted", name, 0)
                      ELSE Line("failed", name, 0) >>
  /\ converted_count' = converted_count + 1
  /\ pc' = IF r.res.ok THEN "Succeeded" ELSE "Failed"

\* main.rs:119-127: the arms of the match on convert's result
BatchArm(r, name) ==
  /\ log' = log \o r.log \o
       << IF r.res.ok THEN Line("converted", name, 0)
                      ELSE Line("failed", name, 0) >>
  /\ converted_count' = IF r.res.ok THEN converted_count + 1 ELSE converted_count
  /\ pc' = IF r.res.ok THEN "Succeeded" ELSE "Failed"

\* main.rs:119-127 with convert (main.rs:77-93) for the current entry
ConvertEntry ==
  /\ pc = "Converting"
  /\ \E openOk \in BOOLEAN, saveOut \in SaveOutcomes :
       LET e == entries[idx]
           c == calls[Len(calls)]
           r == convert(quality, c.input, e.content, c.output, c.format,
                        out_files, openOk, saveOut)
       IN /\ BatchArm(r, e.name)
          /\ out_files' = r.files
          /\ fsops' = fsops \o r.fsops
          /\ encodes' = encodes \o r.encodes
  /\ idx' = idx + 1
  /\ UNCHANGED << args, input, out_exists, exit_code, quality, target_format,
                  entries, calls >>

\* main.rs:131-134: the iterator is exhausted, the tally is printed
Finish ==
  /\ AtLoopHead
  /\ idx > Len(entries)
  /\ log' = Append(log, Line("tally", <<>>, converted_count))
  /\ pc' = "Completed"
  /\ fsops' = fsops \o << Op("readdir_next", "input_dir") >>
  /\ UNCHANGED << args, input, out_exists, out_files, exit_code, quality,
                  target_format, entries, idx, converted_count, calls, encodes >>

\* main.rs:189-192 and the end of main: batch_convert has returned
BatchReturn ==
  /\ pc \in {"Completed", "Aborted"}
  /\ IF pc = "Aborted"
       THEN /\ log' = Append(log, Line("error", <<>>, 0))
            /\ exit_code' = "1"
            /\ pc' = "exit_aborted"
       ELSE /\ log' = log
            /\ exit_code' = "0"
            /\ pc' = "exit_completed"
  /\ UNCHANGED << args, input, out_exists, out_files, quality, target_format,
                  entries, idx, converted_count, fsops, calls, encodes >>

\* ------------------------------------------------------------------------
\* single-file mode
\* ------------------------------------------------------------------------
\* main.rs:201-207: the input path is probed
SingleProbeInput ==
  /\ pc = "single_probe"
  /\ fsops' = Append(fsops, Op("stat", "input"))
  /\ UNCHANGED << args, input, out_exists, out_files, quality, target_format,
                  entries, idx, converted_count, calls, encodes >>
  /\ IF input.kind = "missing"
       THEN /\ log' = Append(log, Line("error_missing", Arg(1), 0))
            /\ Exit("1")
       ELSE /\ log' = log
            /\ pc' = "single_format"
            /\ exit_code' = exit_code

SingleInferFormat_default ==
  /\ pc = "single_format"
  /\ UNCHANGED << args, input, out_exists, out_files, quality, entries, idx,
                  converted_count, fsops, calls, encodes >>
  /\ LET ext == path_extension(Arg(2))
         r == IF ext.some THEN from_extension(ext.v) ELSE Ok("Png")
     IN IF r.ok
          THEN /\ target_format' = r.val
               /\ log' = log
               /\ pc' = "single_convert"
               /\ exit_code' = exit_code
          ELSE /\ target_format' = target_format
               /\ log' = Append(log, Line("error_unsupported", r.err, 0))
               /\ Exit("1")

\* main.rs:209-221: the target format is taken from the output extension
SingleInferFormat ==
  /\ pc = "single_format"
  /\ UNCHANGED << args, input, out_exists, out_files, quality, entries, idx,
                  converted_count, fsops, calls, encodes >>
  /\ LET ext == path_extension(Arg(2)) IN
     IF ext.some
       THEN LET r == from_extension(ext.v) IN
            IF r.ok
              THEN /\ target_format' = r.val
                   /\ log' = log
                   /\ pc' = "single_convert"
                   /\ exit_code' = exit_code
              ELSE /\ target_format' = target_format
                   /\ log' = Append(log, Line("error_unsupported", r.err, 0))
                   /\ Exit("1")
       ELSE /\ target_format' = target_format
            /\ log' = Append(log, Line("error_no_extension", <<>>, 0))
            /\ Exit("1")

\* main.rs:223-226 with convert (main.rs:77-93)
SingleConvert ==
  /\ pc = "single_convert"
  /\ \E openOk \in BOOLEAN, saveOut \in SaveOutcomes :
       LET r == convert(quality, Arg(1), input.content, Arg(2), target_format,
                        out_files, openOk, saveOut)
       IN /\ calls' = Append(calls, [input |-> Arg(1), output |-> Arg(2),
                                     format |-> target_format, at |-> 0])
          /\ out_files' = r.files
          /\ fsops' = fsops \o r.fsops
          /\ encodes' = encodes \o r.encodes
          /\ IF r.res.ok
               THEN /\ log' = log \o r.log
                    /\ pc' = "exit"
                    /\ exit_code' = "0"
               ELSE /\ log' = log \o r.log \o << Line("error", <<>>, 0) >>
                    /\ Exit("1")
  /\ UNCHANGED << args, input, out_exists, quality, target_format, entries,
                  idx, converted_count >>

Next ==
  \/ MainStart
  \/ BatchParseFormat
  \/ BatchCheckInputDir
  \/ EnsureOutputDir
  \/ ReadDir
  \/ EntryError
  \/ SkipEntry
  \/ BeginConvert
  \/ ConvertEntry
  \/ Finish
  \/ BatchReturn
  \/ SingleProbeInput
  \/ SingleInferFormat
  \/ SingleConvert

Spec == Init /\ [][Next]_vars

\* ------------------------------------------------------------------------
\* The format registry on its own: main at main.rs:176 with every spelling
\* of the <format> argument
\* ------------------------------------------------------------------------
ToUpperChar(c) ==
  IF \E k \in 1..Len(LowerChars) : LowerChars[k] = c
    THEN UpperChars[CHOOSE k \in 1..Len(LowerChars) : LowerChars[k] = c]
    ELSE c

\* every upper / lower case spelling of a lower-case word
Spellings(w) ==
  { [i \in 1..Len(w) |-> IF i \in S THEN ToUpperChar(w[i]) ELSE w[i]] :
      S \in SUBSET (1..Len(w)) }

BaseWords ==
  { <<"j","p","g">>, <<"j","p","e","g">>, <<"p","n","g">>, <<"w","e","b","p">>,
    <<"a","v","i","f">>, <<"g","i","f">>, <<>>, <<"j","p","e">>,
    <<"p","n","g","x">>, <<"t","i","f","f">>, <<"b","m","p">>, <<".","p","n","g">> }

ExtInputs == UNION { Spellings(w) : w \in BaseWords }

InitFmt ==
  /\ \E f \in ExtInputs :
       Start(World(<<Prog, BatchFlag, InDir, OutDir, f>>, DirInput(<<>>), TRUE, {}))
  /\ pc = "batch_parse"

NextFmt == BatchParseFormat

SpecFmt == InitFmt /\ [][NextFmt]_vars

\* ------------------------------------------------------------------------
\* Properties
\* ------------------------------------------------------------------------
Last(s) == s[Len(s)]

\* the number of output lines of one kind
CountK(k) == Cardinality({ i \in 1..Len(log) : log[i].k = k })

\* the texts carried by the output lines of one kind
TextsK(k) == { log[i].a : i \in { j \in 1..Len(log) : log[j].k = k } }

InBatch ==
  pc \in {"Initializing", "Scanning", "NextEntry", "Converting", "Succeeded",
          "Failed", "Completed", "Aborted"}

\* the entries the iterator has yielded and the loop body has finished with
Done(i) == i < idx

\* s spells the lower-case word w in some mix of upper and lower case
CaseVariant(s, w) ==
  /\ Len(s) = Len(w)
  /\ \A i \in 1..Len(w) :
       \/ s[i] = w[i]
       \/ \E k \in 1..Len(LowerChars) : LowerChars[k] = w[i] /\ UpperChars[k] = s[i]

JpegWords == { <<"j","p","g">>, <<"j","p","e","g">> }
SupportedWords ==
  JpegWords \cup { <<"p","n","g">>, <<"w","e","b","p">>, <<"a","v","i","f">> }

\* the name ends in a dot and a spelling of a supported extension, with
\* something in front of the dot
HasSupportedExtension(name) ==
  \E w \in SupportedWords :
    /\ Len(name) > Len(w) + 1
    /\ name[Len(name) - Len(w)] = "."
    /\ CaseVariant(SubSeq(name, Len(name) - Len(w) + 1, Len(name)), w)

ShouldConvert(e) == e.kind = "file" /\ HasSupportedExtension(e.name)

\* the convert calls made for entry i of the listing
CallsAt(i) == { j \in 1..Len(calls) : calls[j].at = i }

\* C1: in batch_convert a failing convert never aborts the run: the step
\* that ends a convert call goes to Succeeded or Failed, never to Aborted; a
\* failed call is answered by a failure notification naming the entry and the
\* loop moves on to the next entry; a completed run has called convert for
\* every eligible entry, has emitted one failure notification per failed call,
\* ends with the tally line and makes main exit with code 0.
C1_ConvertFailureNeverAborts ==
  /\ [][pc = "Converting" =>
          /\ pc' \in {"Succeeded", "Failed"}
          /\ idx' = idx + 1
          /\ pc' = "Failed" =>
               /\ Last(log') = Line("failed", entries[idx].name, 0)
               /\ converted_count' = converted_count]_vars
  /\ [](pc = "Completed" =>
          /\ \A i \in 1..Len(entries) : ShouldConvert(entries[i]) => CallsAt(i) # {}
          /\ CountK("failed") = Len(calls) - CountK("completed")
          /\ Last(log) = Line("tally", <<>>, converted_count))
  /\ [][pc = "Completed" => (pc' = "exit_completed" /\ exit_code' = "0")]_vars

\* C1 witness: a completed run in which a conversion succeeded after an
\* earlier one had failed
C1_Witness ==
  /\ pc = "Completed"
  /\ \E i, j \in 1..Len(log) : i < j /\ log[i].k = "failed" /\ log[j].k = "converted"

\* C2: throughout a batch run converted_count equals the number of per-file
\* success notifications and the number of convert calls that returned Ok
\* (each prints its completion line); the tally line of a completed run
\* carries that number; the count never decreases and a failed or skipped
\* entry leaves it unchanged.
C2_TallyEqualsSuccesses ==
  /\ [](InBatch =>
          /\ converted_count = CountK("converted")
          /\ converted_count = CountK("completed"))
  /\ [](pc = "Completed" =>
          /\ Last(log).k = "tally"
          /\ Last(log).n = CountK("converted"))
  /\ [][/\ converted_count' >= converted_count
        /\ pc' \in {"Failed", "NextEntry", "Aborted"} =>
             converted_count' = converted_count]_vars

\* C2 witness: a completed run with two successes, a failure and a skip
C2_Witness ==
  /\ pc = "Completed"
  /\ converted_count = 2
  /\ CountK("failed") = 1
  /\ Len(calls) < Len(entries)

\* C3 (as amended): a batch run follows Initializing -> Scanning ->
\* (skip | Converting -> Succeeded | Failed)* -> Completed, and it ends in
\* Aborted only through a directory-level failure: the output directory
\* cannot be created, the input directory cannot be listed, or reading the
\* next directory entry fails (main.rs:109), which can happen after convert
\* calls have been made.  A convert call never leads to Aborted.
C3_AbortOnlyOnDirectoryFailure ==
  [][/\ pc = "Initializing" => pc' \in {"Scanning", "Aborted"}
     /\ pc = "Scanning" => pc' \in {"NextEntry", "Aborted"}
     /\ AtLoopHead => pc' \in {"NextEntry", "Converting", "Completed", "Aborted"}
     /\ pc = "Converting" => pc' \in {"Succeeded", "Failed"}
     /\ pc' = "Aborted" =>
          /\ pc \in {"Initializing", "Scanning", "NextEntry", "Succeeded", "Failed"}
          /\ Last(fsops').op \in {"mkdir", "readdir", "readdir_next"}
          /\ log' = log /\ calls' = calls]_vars

\* C3 witness: the run is aborted by a directory entry that cannot be read,
\* after convert has been called
C3_Witness ==
  /\ pc = "Aborted"
  /\ Len(calls) >= 1
  /\ Last(fsops).op = "readdir_next"

\* C3 as stated: once convert has been invoked, batch_convert can no longer
\* return an error
C3_NoAbortAfterConvert == pc = "Aborted" => calls = <<>>

\* the run created the output directory, which was absent
OutputDirCreated == \E i \in 1..Len(fsops) : fsops[i].op = "mkdir"

\* C4 as stated, for the runs in which no conversion fails: the output
\* directory exists before the first convert call, and after a completed run
\* that created it, it holds exactly one file per successful conversion, so
\* that the number of its files is the tally.
C4_OutputDirHoldsConvertedFiles ==
  /\ (InBatch /\ calls # <<>>) => out_exists
  /\ (pc = "Completed" /\ OutputDirCreated /\ CountK("failed") = 0) =>
       /\ { f.name : f \in out_files } = TextsK("completed")
       /\ Cardinality(out_files) = converted_count

ValidImage(e) == ShouldConvert(e) /\ e.content = "valid"
CorruptImage(e) == ShouldConvert(e) /\ e.content = "corrupt"
UnsupportedFile(e) ==
  /\ e.kind = "file"
  /\ LastDot(e.name) > 1
  /\ ~HasSupportedExtension(e.name)

\* the indices of the listing that satisfy P
Those(P(_)) == { i \in 1..Len(entries) : P(entries[i]) }

\* the directory of C5: 3 valid images, 1 file with an unsupported
\* extension, 1 corrupt image
C5_Directory ==
  /\ Len(entries) = 5
  /\ Cardinality(Those(ValidImage)) = 3
  /\ Cardinality(Those(UnsupportedFile)) = 1
  /\ Cardinality(Those(CorruptImage)) = 1

\* no valid image was hit by an I/O or encoder failure
C5_ValidConverted ==
  \A i \in Those(ValidImage) : entries[i].name \notin TextsK("failed")

\* C5 (as amended): a completed batch run over 3 valid images, 1 file with an
\* unsupported extension and 1 corrupt image, in which the valid images
\* convert, ends with tally 3: convert is called for four entries, the
\* unsupported file is passed over without any notification and exactly one
\* failure notification is emitted, for the corrupt image.
C5_TallyIsThree ==
  (pc = "Completed" /\ C5_Directory /\ C5_ValidConverted) =>
    /\ Last(log).n = 3
    /\ converted_count = 3
    /\ Len(calls) = 4
    /\ CountK("failed") = 1
    /\ \A i \in Those(CorruptImage) : TextsK("failed") = { entries[i].name }
    /\ \A i \in Those(UnsupportedFile) :
         entries[i].name \notin (TextsK("failed") \cup TextsK("converted"))

\* C5 witness: such a run, completed
C5_Witness ==
  /\ pc = "Completed"
  /\ C5_Directory
  /\ C5_ValidConverted
  /\ Last(log).n = 3

\* C5 as stated: the final tally of that run is 2
C5_TallyIsTwo ==
  (pc = "Completed" /\ C5_Directory /\ C5_ValidConverted) =>
    /\ Last(log).n = 2
    /\ CountK("failed") = 1

\* C6: during a batch run convert is called exactly once for each entry the
\* loop has reached that is a regular file with a supported extension in any
\* letter case, and never for a subdirectory, a file without an extension or
\* a file with an unsupported extension; the entries passed over appear in no
\* progress, success or failure line, and only converted entries are counted.
C6_ConvertOncePerEligibleEntry ==
  InBatch =>
    /\ \A i \in 1..Len(entries) :
         Cardinality(CallsAt(i)) =
           IF ShouldConvert(entries[i]) /\ (Done(i) \/ (i = idx /\ pc = "Converting"))
             THEN 1 ELSE 0
    /\ \A i \in 1..Len(entries) :
         ~ShouldConvert(entries[i]) =>
           entries[i].name \notin
             (TextsK("loading") \cup TextsK("converted") \cup TextsK("failed"))
    /\ CountK("converted") + CountK("failed") =
         Len(calls) - (IF pc = "Converting" THEN 1 ELSE 0)
    /\ converted_count <= Len(calls)
    /\ (pc = "Completed" => idx = Len(entries) + 1)

\* C6 witness: a completed run over a directory with a subdirectory named
\* like an image, a file without extension, a file with an unsupported
\* extension and an image with an upper-case extension, which was converted
C6_Witness ==
  /\ pc = "Completed"
  /\ \E i \in 1..Len(entries) : entries[i].kind = "dir" /\ HasSupportedExtension(entries[i].name)
  /\ \E i \in 1..Len(entries) : entries[i].kind = "file" /\ LastDot(entries[i].name) = 0
  /\ \E i \in 1..Len(entries) : UnsupportedFile(entries[i])
  /\ \E j \in 1..Len(calls) : calls[j].input = <<"a",".","J","P","G">>
  /\ Len(calls) = 2

\* single-file mode with an output path that has no extension
SingleNoExtension ==
  /\ Len(args) = 3
  /\ Arg(1) # BatchFlag
  /\ ~path_extension(Arg(2)).some

\* C7 (as amended): a single-file conversion whose output path has no
\* extension fails with exit code 1 without the input being opened or
\* decoded, without any encoder call and without any output file being
\* created; the one file-system access made before the rejection is the
\* existence probe of the input path (main.rs:204), and when the input does
\* not exist the run fails at that probe.
C7_RejectedAfterProbeOnly ==
  SingleNoExtension =>
    /\ pc # "single_convert"
    /\ calls = <<>> /\ encodes = <<>> /\ out_files = {}
    /\ \A i \in 1..Len(fsops) : fsops[i] = Op("stat", "input")
    /\ Len(fsops) <= 1
    /\ pc = "exit" =>
         /\ exit_code = "1"
         /\ fsops = << Op("stat", "input") >>
         /\ Last(log).k = (IF input.kind = "missing" THEN "error_missing"
                                                     ELSE "error_no_extension")

\* C7 witness: the output path without extension is rejected, the input
\* having been probed
C7_Witness ==
  /\ SingleNoExtension
  /\ pc = "exit"
  /\ Last(log).k = "error_no_extension"
  /\ fsops = << Op("stat", "input") >>

\* C7 as stated: the rejection comes before any file-system access
C7_RejectedBeforeAnyAccess ==
  (SingleNoExtension /\ pc = "exit") => (exit_code = "1" /\ fsops = <<>>)

\* C8: from_extension, applied to the <format> argument, yields JPEG exactly
\* for the spellings of "jpg" and "jpeg", PNG for those of "png", WebP for
\* those of "webp", AVIF for those of "avif", in any letter case; every other
\* string, "gif" and the empty string among them, is rejected with an error
\* that carries the string as it was given.
C8_FromExtensionCaseInsensitiveClosed ==
  pc # "batch_parse" =>
    LET s == Arg(4)
        Spells(W) == \E w \in W : CaseVariant(s, w)
    IN /\ target_format = "Jpeg" <=> Spells(JpegWords)
       /\ target_format = "Png" <=> Spells({ <<"p","n","g">> })
       /\ target_format = "WebP" <=> Spells({ <<"w","e","b","p">> })
       /\ target_format = "Avif" <=> Spells({ <<"a","v","i","f">> })
       /\ Spells(SupportedWords) => (pc = "batch_check" /\ log = <<>>)
       /\ ~Spells(SupportedWords) =>
            /\ target_format = "none"
            /\ pc = "exit" /\ exit_code = "1"
            /\ log = << Line("error_unsupported", s, 0) >>

\* C8 witness: a spelling with upper-case letters has been parsed
C8_Witness ==
  /\ pc = "batch_check"
  /\ Arg(4) = <<"J","p","E","g">>
  /\ target_format = "Jpeg"

\* C9 as stated: every JPEG, WebP and AVIF encode is handed the engine's
\* quality (at most 100) as a hint, and the PNG encode is handed none
C9_QualityHandedToLossyEncoders ==
  /\ quality <= MaxQuality
  /\ \A i \in 1..Len(encodes) :
       encodes[i].hint = (IF encodes[i].format = "Png" THEN {} ELSE {quality})

\* C10: in every convert call the program makes, in single-file mode and for
\* every entry of a batch run, the output path has an extension and
\* from_extension of it is the target format of the call; from_extension of
\* the canonical extension of each format is that format.
C10_OutputExtensionAgreesWithTarget ==
  /\ \A i \in 1..Len(calls) :
       LET e == path_extension(calls[i].output)
       IN e.some /\ from_extension(e.v) = Ok(calls[i].format)
  /\ \A f \in SupportedFormat : from_extension(extension(f)) = Ok(f)

\* C10 witness: a batch call that converts an upper-case .JPG to JPEG, after
\* which the run completed
C10_Witness ==
  /\ pc = "Completed"
  /\ \E i \in 1..Len(calls) :
       /\ calls[i].input = <<"a",".","J","P","G">>
       /\ calls[i].format = "Jpeg"
       /\ calls[i].output = <<"a",".","j","p","g">>

====
